---- MODULE Spec2Model ----
(***************************************************************************)
(* Model of mihoro's mihomo-binary resolution (resolve_mihomo_bin.rs) and  *)
(* of the `update` command dispatch (main.rs, cli).                        *)
(*                                                                         *)
(* A Rust &str / String is a sequence of characters.  An ASCII character   *)
(* is a one-character string ("a"); a non-ASCII character is written as    *)
(* its code point ("U+00E9") and occupies Utf8Len bytes.  Text produced by *)
(* format! is a string built with \o, so that it can be compared with the  *)
(* literals of the source.                                                 *)
(***************************************************************************)
EXTENDS Integers, Sequences, FiniteSets, TLC

VARIABLES
    pc,        \* position of cli() in the `update` arm
    args,      \* Commands::Update { config, core, geodata, all, arch }
    config,    \* the Config fields resolve_binary_url reads
    hostArch,  \* std::env::consts::ARCH
    calls,     \* the collaborator calls made so far, in order
    outcome,   \* what each stage returned
    rpc,       \* position inside resolve_binary_url
    archRes,   \* outcome of the architecture step of resolve_binary_url
    requests,  \* the GET requests sent to a version endpoint, in order
    response,  \* what came back for the last request
    verRes,    \* outcome of fetch_latest_version
    urlRes,    \* outcome of resolve_binary_url
    builds,    \* the calls of build_download_url made by resolve_binary_url
    exit,      \* how the process ended
    call       \* the last direct call of a pure function (unit level)

vars == <<pc, args, config, hostArch, calls, outcome, rpc, archRes, requests, response,
          verRes, urlRes, builds, exit, call>>

\* Option<T>
None == [some |-> FALSE]

Some(v) == [some |-> TRUE, value |-> v]

(***************************************************************************)
(* Strings                                                                 *)
(***************************************************************************)

\* Number of bytes of a character in UTF-8.
Utf8Len(c) ==
    IF c = "U+00E9" THEN 2
    ELSE IF c = "U+20AC" THEN 3
    ELSE 1

\* str::len: the length in bytes.
RECURSIVE ByteLen(_)
ByteLen(s) == IF s = <<>> THEN 0 ELSE Utf8Len(Head(s)) + ByteLen(Tail(s))

\* Number of bytes of the first n characters of s.
ByteOffset(s, n) == ByteLen(SubSeq(s, 1, n))

\* str::is_char_boundary
IsCharBoundary(s, b) == \E n \in 0..Len(s) : ByteOffset(s, n) = b

\* &s[..b] for a b that is a character boundary
SliceTo(s, b) ==
    SubSeq(s, 1, CHOOSE n \in 0..Len(s) : ByteOffset(s, n) = b)

\* str::starts_with
StartsWith(s, p) == Len(p) <= Len(s) /\ SubSeq(s, 1, Len(p)) = p

\* The text of a character sequence.
RECURSIVE Str(_)
Str(s) == IF s = <<>> THEN "" ELSE Head(s) \o Str(Tail(s))

\* [&str]::join(", ") as text
RECURSIVE Join(_)
Join(list) ==
    IF list = <<>> THEN ""
    ELSE IF Len(list) = 1 THEN Str(list[1])
    ELSE Str(Head(list)) \o ", " \o Join(Tail(list))

\* char::is_whitespace, for the characters of the model
IsWhitespace(c) == c \in {" ", "\n", "\t", "\r"}

RECURSIVE TrimStart(_)
TrimStart(s) ==
    IF s # <<>> /\ IsWhitespace(Head(s)) THEN TrimStart(Tail(s)) ELSE s

RECURSIVE TrimEnd(_)
TrimEnd(s) ==
    IF s # <<>> /\ IsWhitespace(s[Len(s)])
    THEN TrimEnd(SubSeq(s, 1, Len(s) - 1)) ELSE s

\* str::trim
Trim(s) == TrimEnd(TrimStart(s))

Min(a, b) == IF a < b THEN a ELSE b

(***************************************************************************)
(* Results                                                                 *)
(***************************************************************************)

Ok(v) == [kind |-> "Ok", value |-> v]

\* anyhow::Error; `error` names the place that raised it
Err(e, m) == [kind |-> "Err", error |-> e, msg |-> m]

\* a panic unwinding out of the function
Panic(m) == [kind |-> "Panic", msg |-> m]

\* the function has not returned (yet)
NotYet == [kind |-> "NotYet"]

(***************************************************************************)
(* resolve_mihomo_bin.rs                                                   *)
(***************************************************************************)

STABLE_VERSION_URL ==
    "https://github.com/MetaCubeX/mihomo/releases/latest/download/version.txt"

ALPHA_VERSION_URL ==
    "https://github.com/MetaCubeX/mihomo/releases/download/Prerelease-Alpha/version.txt"

SUPPORTED_ARCHS == <<
    <<"3","8","6">>,                                                  \* 386
    <<"3","8","6","-","g","o","1","2","0">>,                          \* 386-go120
    <<"3","8","6","-","g","o","1","2","3">>,                          \* 386-go123
    <<"3","8","6","-","s","o","f","t","f","l","o","a","t">>,          \* 386-softfloat
    <<"a","m","d","6","4">>,                                          \* amd64
    <<"a","m","d","6","4","-","c","o","m","p","a","t","i","b","l","e">>, \* amd64-compatible
    <<"a","m","d","6","4","-","v","1">>,                              \* amd64-v1
    <<"a","m","d","6","4","-","v","1","-","g","o","1","2","0">>,      \* amd64-v1-go120
    <<"a","m","d","6","4","-","v","1","-","g","o","1","2","3">>,      \* amd64-v1-go123
    <<"a","m","d","6","4","-","v","2">>,                              \* amd64-v2
    <<"a","m","d","6","4","-","v","2","-","g","o","1","2","0">>,      \* amd64-v2-go120
    <<"a","m","d","6","4","-","v","2","-","g","o","1","2","3">>,      \* amd64-v2-go123
    <<"a","m","d","6","4","-","v","3">>,                              \* amd64-v3
    <<"a","m","d","6","4","-","v","3","-","g","o","1","2","0">>,      \* amd64-v3-go120
    <<"a","m","d","6","4","-","v","3","-","g","o","1","2","3">>,      \* amd64-v3-go123
    <<"a","r","m","6","4">>,                                          \* arm64
    <<"a","r","m","v","5">>,                                          \* armv5
    <<"a","r","m","v","6">>,                                          \* armv6
    <<"a","r","m","v","7">>,                                          \* armv7
    <<"l","o","o","n","g","6","4","-","a","b","i","1">>,              \* loong64-abi1
    <<"l","o","o","n","g","6","4","-","a","b","i","2">>,              \* loong64-abi2
    <<"m","i","p","s","-","h","a","r","d","f","l","o","a","t">>,      \* mips-hardfloat
    <<"m","i","p","s","-","s","o","f","t","f","l","o","a","t">>,      \* mips-softfloat
    <<"m","i","p","s","6","4">>,                                      \* mips64
    <<"m","i","p","s","6","4","l","e">>,                              \* mips64le
    <<"m","i","p","s","l","e","-","h","a","r","d","f","l","o","a","t">>, \* mipsle-hardfloat
    <<"m","i","p","s","l","e","-","s","o","f","t","f","l","o","a","t">>, \* mipsle-softfloat
    <<"p","p","c","6","4","l","e">>,                                  \* ppc64le
    <<"r","i","s","c","v","6","4">>,                                  \* riscv64
    <<"s","3","9","0","x">>                                           \* s390x
>>

\* SUPPORTED_ARCHS.contains(&arch)
IsSupported(arch) == \E i \in 1..Len(SUPPORTED_ARCHS) : SUPPORTED_ARCHS[i] = arch

\* The default token of each std::env::consts::ARCH value detect_arch maps.
ArchTable == <<
    <<"x86_64",      <<"a","m","d","6","4","-","c","o","m","p","a","t","i","b","l","e">> >>,
    <<"aarch64",     <<"a","r","m","6","4">> >>,
    <<"arm",         <<"a","r","m","v","7">> >>,
    <<"x86",         <<"3","8","6">> >>,
    <<"mips64",      <<"m","i","p","s","6","4">> >>,
    <<"mips64el",    <<"m","i","p","s","6","4","l","e">> >>,
    <<"mips",        <<"m","i","p","s","-","s","o","f","t","f","l","o","a","t">> >>,
    <<"mipsel",      <<"m","i","p","s","l","e","-","s","o","f","t","f","l","o","a","t">> >>,
    <<"powerpc64le", <<"p","p","c","6","4","l","e">> >>,
    <<"ppc64le",     <<"p","p","c","6","4","l","e">> >>,
    <<"riscv64",     <<"r","i","s","c","v","6","4">> >>,
    <<"s390x",       <<"s","3","9","0","x">> >>,
    <<"loongarch64", <<"l","o","o","n","g","6","4","-","a","b","i","2">> >>
>>

\* detect_arch with a raw-identifier slip: the 64-bit ARM arm returns the
\* platform identifier instead of mihomo's token.
detect_arch_raw(arch) ==
    IF \E i \in 1..Len(ArchTable) : ArchTable[i][1] = Str(arch)
    THEN LET i == CHOOSE j \in 1..Len(ArchTable) : ArchTable[j][1] = Str(arch)
         IN  IF ArchTable[i][1] = "aarch64" THEN Ok(arch) ELSE Ok(ArchTable[i][2])
    ELSE Err("UnsupportedArch",
             "unsupported architecture: " \o Str(arch)
                 \o " (use --arch to specify manually)")

\* detect_arch, as a function of std::env::consts::ARCH
detect_arch(arch) ==
    IF \E i \in 1..Len(ArchTable) : ArchTable[i][1] = Str(arch)
    THEN LET i == CHOOSE j \in 1..Len(ArchTable) : ArchTable[j][1] = Str(arch)
         IN  Ok(ArchTable[i][2])
    ELSE Err("UnsupportedArch",
             "unsupported architecture: " \o Str(arch)
                 \o " (use --arch to specify manually)")

\* arch.len().min(2): a prefix one byte too short
PrefixEndShort(arch) == Min(ByteLen(arch), 2)

\* arch.len().min(3): the byte index the suggestion prefix ends at
PrefixEnd(arch) == Min(ByteLen(arch), 3)

\* SUPPORTED_ARCHS.iter().filter(|a| a.starts_with(&arch[..end])).collect()
Suggestions(arch) ==
    LET prefix == SliceTo(arch, PrefixEnd(arch))
        Test(a) == StartsWith(a, prefix)
    IN  SelectSeq(SUPPORTED_ARCHS, Test)

validate_arch(arch) ==
    IF IsSupported(arch) THEN Ok(arch)
    ELSE IF ~IsCharBoundary(arch, PrefixEnd(arch))
    THEN Panic("byte index is not a char boundary")
    ELSE IF Suggestions(arch) = <<>>
    THEN [kind |-> "Err", error |-> "InvalidArch", hint |-> "Supported",
          list |-> SUPPORTED_ARCHS,
          msg  |-> "unsupported architecture: '" \o Str(arch)
                       \o "'\nSupported: " \o Join(SUPPORTED_ARCHS)]
    ELSE [kind |-> "Err", error |-> "InvalidArch", hint |-> "Did you mean",
          list |-> Suggestions(arch),
          msg  |-> "unsupported architecture: '" \o Str(arch)
                       \o "'\nDid you mean: " \o Join(Suggestions(arch))]

StableBase == "https://github.com/MetaCubeX/mihomo/releases/latest/download"

AlphaBase == "https://github.com/MetaCubeX/mihomo/releases/download/Prerelease-Alpha"

\* build_download_url with the two format arguments in the wrong order
build_download_url_swapped(version, arch, channel) ==
    LET base == IF channel = "Stable" THEN StableBase ELSE AlphaBase
    IN  base \o "/mihomo-linux-" \o Str(version) \o "-" \o Str(arch) \o ".gz"

build_download_url(version, arch, channel) ==
    LET base == IF channel = "Stable" THEN StableBase ELSE AlphaBase
    IN  base \o "/mihomo-linux-" \o Str(arch) \o "-" \o Str(version) \o ".gz"

\* the endpoint fetch_latest_version asks, by channel
VersionUrl(channel) ==
    IF channel = "Stable" THEN STABLE_VERSION_URL ELSE ALPHA_VERSION_URL

\* the request fetch_latest_version sends
VersionRequest(channel, user_agent) ==
    [url |-> VersionUrl(channel), user_agent |-> user_agent]

\* Response::error_for_status_ref fails on 4xx and 5xx only
\* (StatusCode::is_client_error, StatusCode::is_server_error)
IsErrorStatus(status) == status >= 400 /\ status <= 599

\* What fetch_latest_version returns for what came back from send():
\* resp.sent is false when send() failed, resp.read is false when reading
\* the body failed.
fetch_latest_version(channel, resp) ==
    IF ~resp.sent
    THEN Err("Network",
             "failed to fetch version from '" \o VersionUrl(channel) \o "'")
    ELSE IF IsErrorStatus(resp.status)
    THEN Err("Network", "HTTP status client error or server error")
    ELSE IF ~resp.read
    THEN Err("Network", "failed to read version response")
    ELSE IF Trim(resp.body) = <<>>
    THEN Err("EmptyVersion", "received empty version from GitHub")
    ELSE Ok(Trim(resp.body))

\* a version error swallowed: the URL is built with an empty version
FinishResolveDefaulting(v, arch, channel) ==
    LET version == IF v.kind = "Ok" THEN v.value ELSE <<>>
    IN  [result |-> Ok(build_download_url(version, arch, channel)),
         built  |-> <<[version |-> version, arch |-> arch, channel |-> channel]>>]

\* let version = fetch_latest_version(..).await?;
\* let url = build_download_url(&version, &arch, channel); Ok(url)
\* for the outcome v of fetch_latest_version: what resolve_binary_url
\* returns and the call of build_download_url it makes, if any
FinishResolve(v, arch, channel) ==
    IF v.kind = "Ok"
    THEN [result |-> Ok(build_download_url(v.value, arch, channel)),
          built  |-> <<[version |-> v.value, arch |-> arch, channel |-> channel]>>]
    ELSE [result |-> v, built |-> <<>>]

\* if let Some(ref url) = ... with any url, the empty one included
UsesExplicitUrlAnySome(cfg) == cfg.remote_mihomo_binary_url.some

\* if let Some(ref url) = config.remote_mihomo_binary_url { if !url.is_empty()
UsesExplicitUrl(cfg) ==
    /\ cfg.remote_mihomo_binary_url.some
    /\ cfg.remote_mihomo_binary_url.value # ""

\* the architecture chain with the config override consulted first
determine_arch_config_first(arch_override, cfg, host) ==
    IF cfg.mihomo_arch.some THEN validate_arch(cfg.mihomo_arch.value)
    ELSE IF arch_override.some THEN validate_arch(arch_override.value)
    ELSE detect_arch(host)

\* Determine architecture: CLI override > config override > auto-detect
determine_arch(arch_override, cfg, host) ==
    IF arch_override.some THEN validate_arch(arch_override.value)
    ELSE IF cfg.mihomo_arch.some THEN validate_arch(cfg.mihomo_arch.value)
    ELSE detect_arch(host)

(***************************************************************************)
(* Inputs                                                                  *)
(***************************************************************************)

Amd64 == <<"a","m","d","6","4">>

Armv7 == <<"a","r","m","v","7">>

X86_64 == <<"x","8","6","_","6","4">>

Aarch64 == <<"a","a","r","c","h","6","4">>

Sparc64 == <<"s","p","a","r","c","6","4">>

\* "am" followed by e-acute: 4 bytes, byte 3 falls inside the last character
AmEacute == <<"a","m","U+00E9">>

\* clap accepts --all only without --config, --core and --geodata
\* (conflicts_with_all); --arch goes with any of them.
Flags ==
    { f \in [config : BOOLEAN, core : BOOLEAN, geodata : BOOLEAN, all : BOOLEAN] :
        f.all => (~f.config /\ ~f.core /\ ~f.geodata) }

CliArchs == {None, Some(Amd64), Some(X86_64), Some(AmEacute)}

ConfigArchs == {None, Some(Armv7), Some(Aarch64)}

ConfigUrls == {None, Some(""), Some("https://example.com/mihomo-custom.gz")}

Channels == {"Stable", "Alpha"}

HostArchs == {X86_64, Sparc64}

UserAgent == "mihoro"

Bodies == {
    <<"v","1",".","1","9",".","0">>,
    <<" ","v","1",".","1","9",".","0","\n">>,
    <<>>,
    <<" ","\n">>,
    <<"v","1"," ","r","c","\n">> }

\* what send() and text() can come back with
Responses ==
    {[sent |-> FALSE, status |-> 0, body |-> <<>>, read |-> FALSE]}
    \cup [sent : {TRUE}, status : {200, 204, 300, 404, 503}, body : Bodies,
          read : {TRUE}]
    \cup [sent : {TRUE}, status : {200}, body : {<<>>}, read : {FALSE}]

NoCall == [fn |-> "none"]

(***************************************************************************)
(* main.rs: cli(), the Commands::Update arm                                *)
(***************************************************************************)

Stages == {"update_config", "update_geodata", "update_core"}

Init ==
    /\ pc = "Idle"
    /\ \E f \in Flags, a \in CliArchs : args = [flags |-> f, arch |-> a]
    /\ \E u \in ConfigUrls, a \in ConfigArchs, c \in Channels :
           config = [remote_mihomo_binary_url |-> u, mihomo_arch |-> a,
                     mihomo_channel |-> c, mihoro_user_agent |-> UserAgent]
    /\ hostArch \in HostArchs
    /\ calls = <<>>
    /\ outcome = [s \in Stages |-> "NotRun"]
    /\ rpc = "NotCalled"
    /\ archRes = NotYet
    /\ requests = <<>>
    /\ response = None
    /\ verRes = NotYet
    /\ urlRes = NotYet
    /\ builds = <<>>
    /\ exit = "Running"
    /\ call = NoCall

\* the else-if chain with --geodata tested before --core
FirstStageGeodataFirst(f) ==
    IF f.all THEN "UpdatingConfig"
    ELSE IF f.geodata THEN "UpdatingGeodata"
    ELSE IF f.core THEN "UpdatingCore"
    ELSE "UpdatingConfig"

\* the stage the if / else-if chain of the Update arm enters first
FirstStage(f) ==
    IF f.all THEN "UpdatingConfig"
    ELSE IF f.core THEN "UpdatingCore"
    ELSE IF f.geodata THEN "UpdatingGeodata"
    ELSE IF f.config \/ (~f.core /\ ~f.geodata) THEN "UpdatingConfig"
    ELSE "Done"

\* the restart argument of update_config: false under --all, true alone
ConfigRestartArg(f) == ~f.all

\* the restart argument of update_core: false under --all, true alone
CoreRestartArg(f) == ~f.all

\* a config stage whose error is propagated with `?` under --all too
AfterConfigPropagating(f, ok) ==
    IF f.all /\ ok THEN "UpdatingGeodata" ELSE "Done"

\* where cli() goes when update_config has returned
AfterConfig(f, ok) == IF f.all THEN "UpdatingGeodata" ELSE "Done"

\* where cli() goes when update_geodata has returned
AfterGeodata(f, ok) == IF f.all THEN "UpdatingCore" ELSE "Done"

\* where cli() goes when update_core has returned
AfterCore(f, ok) == IF f.all THEN "Restarting" ELSE "Done"

\* the result of cli() when a stage has returned: under --all the error is
\* printed and dropped, alone it is returned with `?`
ExitAfterStage(f, ok) ==
    IF f.all THEN "Running" ELSE IF ok THEN "Ok" ELSE "Err"

\* the calls a stage of mihoro.rs makes: the stage itself and, when it is
\* asked to restart and has succeeded, a restart of mihomo.service
StageCalls(op, restart, ok) ==
    IF restart /\ ok
    THEN <<[op |-> op, restart |-> restart], [op |-> "restart", by |-> op]>>
    ELSE <<[op |-> op, restart |-> restart]>>

Dispatch ==
    /\ pc = "Idle"
    /\ pc' = FirstStage(args.flags)
    /\ exit' = IF pc' = "Done" THEN "Ok" ELSE "Running"
    /\ UNCHANGED <<args, config, hostArch, calls, outcome, rpc, archRes,
                   requests, response, verRes, urlRes, builds, call>>

UpdateConfig ==
    /\ pc = "UpdatingConfig"
    /\ \E ok \in BOOLEAN :
        /\ calls' = calls \o StageCalls("update_config",
                                         ConfigRestartArg(args.flags), ok)
        /\ outcome' = [outcome EXCEPT !["update_config"] = IF ok THEN "Ok" ELSE "Err"]
        /\ pc' = AfterConfig(args.flags, ok)
        /\ exit' = ExitAfterStage(args.flags, ok)
    /\ UNCHANGED <<args, config, hostArch, rpc, archRes, requests, response,
                   verRes, urlRes, builds, call>>

UpdateGeodata ==
    /\ pc = "UpdatingGeodata"
    /\ \E ok \in BOOLEAN :
        /\ calls' = Append(calls, [op |-> "update_geodata", restart |-> FALSE])
        /\ outcome' = [outcome EXCEPT !["update_geodata"] = IF ok THEN "Ok" ELSE "Err"]
        /\ pc' = AfterGeodata(args.flags, ok)
        /\ exit' = ExitAfterStage(args.flags, ok)
    /\ UNCHANGED <<args, config, hostArch, rpc, archRes, requests, response,
                   verRes, urlRes, builds, call>>

\* update_core is entered and calls resolve_binary_url, which runs up to
\* the point where the version request is sent
CoreResolveArch ==
    /\ pc = "UpdatingCore"
    /\ rpc = "NotCalled"
    /\ calls' = Append(calls, [op |-> "update_core",
                               restart |-> CoreRestartArg(args.flags)])
    /\ IF UsesExplicitUrl(config)
       THEN /\ urlRes' = Ok(config.remote_mihomo_binary_url.value)
            /\ rpc' = "Returned"
            /\ UNCHANGED <<archRes, requests, pc, exit, outcome>>
       ELSE LET a == determine_arch(args.arch, config, hostArch) IN
            /\ archRes' = a
            /\ IF a.kind = "Ok"
               THEN /\ requests' = Append(requests,
                            VersionRequest(config.mihomo_channel,
                                           config.mihoro_user_agent))
                    /\ rpc' = "Fetching"
                    /\ UNCHANGED <<urlRes, pc, exit, outcome>>
               ELSE IF a.kind = "Err"
               THEN /\ urlRes' = a
                    /\ rpc' = "Returned"
                    /\ UNCHANGED <<requests, pc, exit, outcome>>
               ELSE \* the panic unwinds through cli() and main()
                    /\ urlRes' = a
                    /\ rpc' = "Returned"
                    /\ pc' = "Panicked"
                    /\ exit' = "Panic"
                    /\ outcome' = [outcome EXCEPT !["update_core"] = "Panic"]
                    /\ UNCHANGED requests
    /\ UNCHANGED <<args, config, hostArch, response, verRes, builds, call>>

\* the answer to the version request arrives; fetch_latest_version returns
\* and resolve_binary_url builds the URL or returns the error
CoreFetchVersion ==
    /\ pc = "UpdatingCore"
    /\ rpc = "Fetching"
    /\ \E resp \in Responses :
        LET v == fetch_latest_version(config.mihomo_channel, resp) IN
        /\ response' = Some(resp)
        /\ verRes' = v
        /\ urlRes' = FinishResolve(v, archRes.value, config.mihomo_channel).result
        /\ builds' = builds \o FinishResolve(v, archRes.value,
                                              config.mihomo_channel).built
    /\ rpc' = "Returned"
    /\ UNCHANGED <<pc, args, config, hostArch, calls, outcome, archRes,
                   requests, exit, call>>

\* the rest of update_core: the binary at the resolved URL is downloaded
\* and installed, and the service restarted if asked
CoreInstall ==
    /\ pc = "UpdatingCore"
    /\ rpc = "Returned"
    /\ \E installed \in BOOLEAN :
        LET ok == urlRes.kind = "Ok" /\ installed IN
        /\ calls' = IF CoreRestartArg(args.flags) /\ ok
                    THEN Append(calls, [op |-> "restart", by |-> "update_core"])
                    ELSE calls
        /\ outcome' = [outcome EXCEPT !["update_core"] = IF ok THEN "Ok" ELSE "Err"]
        /\ pc' = AfterCore(args.flags, ok)
        /\ exit' = ExitAfterStage(args.flags, ok)
    /\ UNCHANGED <<args, config, hostArch, rpc, archRes, requests, response,
                   verRes, urlRes, builds, call>>

\* Systemctl::new().restart("mihomo.service").execute()?
Restart ==
    /\ pc = "Restarting"
    /\ calls' = Append(calls, [op |-> "restart", by |-> "cli"])
    /\ pc' = "Done"
    /\ \E ok \in BOOLEAN : exit' = IF ok THEN "Ok" ELSE "Err"
    /\ UNCHANGED <<args, config, hostArch, outcome, rpc, archRes, requests,
                   response, verRes, urlRes, builds, call>>

Next ==
    \/ Dispatch
    \/ UpdateConfig
    \/ UpdateGeodata
    \/ CoreResolveArch
    \/ CoreFetchVersion
    \/ CoreInstall
    \/ Restart

Spec == Init /\ [][Next]_vars

\* every call cli() awaits returns
FairSpec == Spec /\ WF_vars(Next)

(***************************************************************************)
(* The functions of resolve_mihomo_bin.rs called directly, as its unit     *)
(* tests call them.                                                        *)
(***************************************************************************)

\* longest generated architecture string, in characters
MaxLen == 3

Alphabet == {"a", "m", "d", "x", "U+00E9"}

Strings == UNION {[1..n -> Alphabet] : n \in 0..MaxLen}

SupportedSet == {SUPPORTED_ARCHS[i] : i \in 1..Len(SUPPORTED_ARCHS)}

ValidateInputs ==
    Strings \cup SupportedSet
    \cup {X86_64, Aarch64, <<"i","n","v","a","l","i","d">>, <<"3","8">>,
          <<"a","U+20AC">>, <<"U+20AC">>, <<"a","m","d","6","4","U+00E9">>}

DetectInputs ==
    {X86_64, Aarch64, <<"a","r","m">>, <<"x","8","6">>,
     <<"m","i","p","s","6","4">>, <<"m","i","p","s","6","4","e","l">>,
     <<"m","i","p","s">>, <<"m","i","p","s","e","l">>,
     <<"p","o","w","e","r","p","c","6","4","l","e">>,
     <<"p","p","c","6","4","l","e">>, <<"r","i","s","c","v","6","4">>,
     <<"s","3","9","0","x">>, <<"l","o","o","n","g","a","r","c","h","6","4">>,
     Sparc64, <<"w","a","s","m","3","2">>, <<"p","o","w","e","r","p","c">>,
     <<"m","i","p","s","3","2","r","6">>}

BuildVersions ==
    {<<"v","1",".","1","9",".","0">>,
     <<"a","l","p","h","a","-","a","b","c","1","2","3">>,
     <<>>}

BuildArchs ==
    {Amd64, <<"a","r","m","6","4">>,
     <<"a","m","d","6","4","-","c","o","m","p","a","t","i","b","l","e">>,
     X86_64, <<>>}

FnInit ==
    /\ pc = "Idle"
    /\ args = [flags |-> [config |-> FALSE, core |-> FALSE, geodata |-> FALSE,
                          all |-> FALSE],
               arch |-> None]
    /\ config = [remote_mihomo_binary_url |-> None, mihomo_arch |-> None,
                 mihomo_channel |-> "Stable", mihoro_user_agent |-> UserAgent]
    /\ hostArch = X86_64
    /\ calls = <<>>
    /\ outcome = [s \in Stages |-> "NotRun"]
    /\ rpc = "NotCalled"
    /\ archRes = NotYet
    /\ requests = <<>>
    /\ response = None
    /\ verRes = NotYet
    /\ urlRes = NotYet
    /\ builds = <<>>
    /\ exit = "Running"
    /\ call = NoCall

CallValidateArch ==
    /\ call = NoCall
    /\ \E a \in ValidateInputs :
           call' = [fn |-> "validate_arch", arch |-> a, result |-> validate_arch(a)]
    /\ UNCHANGED <<pc, args, config, hostArch, calls, outcome, rpc, archRes,
                   requests, response, verRes, urlRes, builds, exit>>

CallDetectArch ==
    /\ call = NoCall
    /\ \E h \in DetectInputs :
           call' = [fn |-> "detect_arch", host |-> h, result |-> detect_arch(h)]
    /\ UNCHANGED <<pc, args, config, hostArch, calls, outcome, rpc, archRes,
                   requests, response, verRes, urlRes, builds, exit>>

CallBuildDownloadUrl ==
    /\ call = NoCall
    /\ \E v \in BuildVersions, a \in BuildArchs, c \in Channels :
           call' = [fn |-> "build_download_url", version |-> v, arch |-> a,
                    channel |-> c, result |-> build_download_url(v, a, c)]
    /\ UNCHANGED <<pc, args, config, hostArch, calls, outcome, rpc, archRes,
                   requests, response, verRes, urlRes, builds, exit>>

FnNext ==
    \/ CallValidateArch
    \/ CallDetectArch
    \/ CallBuildDownloadUrl

FnSpec == FnInit /\ [][FnNext]_vars

(***************************************************************************)
(* Properties                                                              *)
(***************************************************************************)

\* number of calls of op made so far
Count(op) == Cardinality({i \in 1..Len(calls) : calls[i].op = op})

\* the stage calls made so far, in order, without the restart requests
StageOrder ==
    LET IsStage(c) == c.op \in Stages
        ops == SelectSeq(calls, IsStage)
    IN  [i \in 1..Len(ops) |-> ops[i].op]

\* the process has ended
Ended == pc \in {"Done", "Panicked"}

\* C1: in a full update each of the three stages is attempted exactly once,
\* in the order config, geodata, core, whatever each stage returned: at no
\* point has a stage been called twice, and when the run has ended all three
\* have been called.
C1_EachStageAttemptedOnce ==
    args.flags.all =>
        /\ \A s \in Stages : Count(s) <= 1
        /\ Ended => StageOrder = <<"update_config", "update_geodata", "update_core">>
        /\ outcome["update_config"] # "NotRun" /\ pc # "UpdatingConfig"
               => Count("update_geodata") = 1 \/ pc = "UpdatingGeodata"
        /\ outcome["update_geodata"] # "NotRun" /\ pc # "UpdatingGeodata"
               => Count("update_core") = 1 \/ pc = "UpdatingCore"

\* a full update has ended after the config and the geodata stage failed
C1_Witness ==
    /\ args.flags.all
    /\ pc = "Done"
    /\ outcome["update_config"] = "Err"
    /\ outcome["update_geodata"] = "Err"
    /\ outcome["update_core"] = "Err"
    /\ StageOrder = <<"update_config", "update_geodata", "update_core">>

\* C2: a full update issues exactly one restart request, after all three
\* stages have been attempted, whatever their outcomes; the config and core
\* stages are called with restart disabled, so none comes before it.
C2_ExactlyOneRestartAtEnd ==
    args.flags.all =>
        /\ \A i \in 1..Len(calls) :
               calls[i].op \in {"update_config", "update_core"} => ~calls[i].restart
        /\ \A i \in 1..Len(calls) :
               calls[i].op = "restart" =>
                   /\ calls[i].by = "cli"
                   /\ \A s \in Stages : \E j \in 1..(i - 1) : calls[j].op = s
        /\ Count("restart") <= 1
        /\ exit # "Running" => Count("restart") = 1

\* C3: a full update goes Idle, UpdatingConfig, UpdatingGeodata,
\* UpdatingCore, Restarting, Done in that order, whatever the stages and the
\* restart return: no other step is taken, nothing follows Done, and Done is
\* eventually reached.
FullUpdateOrder ==
    {<<"Idle", "UpdatingConfig">>, <<"UpdatingConfig", "UpdatingGeodata">>,
     <<"UpdatingGeodata", "UpdatingCore">>, <<"UpdatingCore", "UpdatingCore">>,
     <<"UpdatingCore", "Restarting">>, <<"Restarting", "Done">>}

C3_StateSequence ==
    /\ [][args.flags.all => <<pc, pc'>> \in FullUpdateOrder]_vars
    /\ (args.flags.all => <>(pc = "Done"))

\* C4: with a non-empty explicit URL configured, resolve_binary_url returns
\* that URL for every architecture override and channel, with no
\* architecture validated or detected and no version request sent; an
\* explicit URL that is set but empty is treated like an absent one, and
\* resolution goes on with the architecture step.
C4_ExplicitUrlVerbatim ==
    rpc # "NotCalled" =>
        IF config.remote_mihomo_binary_url.some
           /\ config.remote_mihomo_binary_url.value # ""
        THEN /\ rpc = "Returned"
             /\ urlRes = Ok(config.remote_mihomo_binary_url.value)
             /\ archRes = NotYet
             /\ verRes = NotYet
             /\ requests = <<>>
        ELSE /\ archRes.kind # "NotYet"
             /\ archRes = determine_arch(args.arch, config, hostArch)
             /\ urlRes.kind = "Ok" => Len(requests) = 1

\* an explicit URL was returned although the CLI override is invalid
C4_Witness ==
    /\ rpc = "Returned"
    /\ config.remote_mihomo_binary_url = Some("https://example.com/mihomo-custom.gz")
    /\ args.arch = Some(X86_64)
    /\ config.mihomo_arch = Some(Aarch64)
    /\ urlRes = Ok("https://example.com/mihomo-custom.gz")

\* C5: without a non-empty explicit URL the architecture token is the CLI
\* override if one is given, else the config override if one is set, else
\* the detected token.  An override is used only if it is a supported token;
\* an unsupported one makes resolution fail (no URL, no version request)
\* without a lower source being consulted, and with a CLI override present
\* the config override plays no part.
C5_ArchPrecedence ==
    (rpc # "NotCalled" /\ archRes.kind # "NotYet") =>
        /\ args.arch.some /\ IsSupported(args.arch.value)
               => archRes = Ok(args.arch.value)
        /\ args.arch.some /\ ~IsSupported(args.arch.value)
               => /\ archRes.kind # "Ok"
                  /\ urlRes.kind # "Ok"
                  /\ requests = <<>>
        /\ ~args.arch.some /\ config.mihomo_arch.some
                /\ IsSupported(config.mihomo_arch.value)
               => archRes = Ok(config.mihomo_arch.value)
        /\ ~args.arch.some /\ config.mihomo_arch.some
                /\ ~IsSupported(config.mihomo_arch.value)
               => /\ archRes.kind # "Ok"
                  /\ urlRes.kind # "Ok"
                  /\ requests = <<>>
        /\ ~args.arch.some /\ ~config.mihomo_arch.some
               => archRes = detect_arch(hostArch)
        /\ urlRes.kind = "Ok"
               => urlRes.value = build_download_url(verRes.value, archRes.value,
                                                    config.mihomo_channel)

\* a URL was built from a valid CLI override while the config override is
\* not a supported token and the host has no default
C5_Witness ==
    /\ rpc = "Returned"
    /\ args.arch = Some(Amd64)
    /\ config.mihomo_arch = Some(Aarch64)
    /\ hostArch = Sparc64
    /\ ~UsesExplicitUrl(config)
    /\ urlRes.kind = "Ok"

\* a success status: 2xx
IsSuccess(status) == status >= 200 /\ status <= 299

\* C10: fetch_latest_version sends one request to the endpoint of the
\* channel and returns a version only for a success status with a body that
\* is not empty after trimming, the trimmed body; a transport failure or any
\* non-success status is a Network error, a success with a blank body an
\* EmptyVersion error.
C10_FetchOutcome ==
    verRes.kind # "NotYet" =>
        LET r == response.value IN
        /\ Len(requests) = 1
        /\ requests[1].url = IF config.mihomo_channel = "Stable"
                             THEN STABLE_VERSION_URL ELSE ALPHA_VERSION_URL
        /\ verRes.kind \in {"Ok", "Err"}
        /\ verRes.kind = "Ok" <=>
               r.sent /\ r.read /\ IsSuccess(r.status) /\ Trim(r.body) # <<>>
        /\ verRes.kind = "Ok" => verRes.value = Trim(r.body)
        /\ (~r.sent \/ ~r.read \/ ~IsSuccess(r.status)) =>
               verRes.kind = "Err" /\ verRes.error = "Network"
        /\ (r.sent /\ r.read /\ IsSuccess(r.status) /\ Trim(r.body) = <<>>) =>
               verRes.kind = "Err" /\ verRes.error = "EmptyVersion"

\* the UTF-8 bytes of a string, each byte named by its character and its
\* index in it
RECURSIVE Bytes(_)
Bytes(s) ==
    IF s = <<>> THEN <<>>
    ELSE [i \in 1..Utf8Len(Head(s)) |-> <<Head(s), i>>] \o Bytes(Tail(s))

\* C6: validate_arch returns the token unchanged for a member of
\* SUPPORTED_ARCHS and an InvalidArch error for every other string (the
\* empty string, short strings, raw platform identifiers, strings with
\* multi-byte characters); it has no other outcome.
C6_ValidateArchAcceptsExactlyTheSet ==
    call.fn = "validate_arch" =>
        IF call.arch \in SupportedSet
        THEN call.result = Ok(call.arch)
        ELSE call.result.kind = "Err" /\ call.result.error = "InvalidArch"

\* the architecture families detect_arch maps
DetectFamilies ==
    {"x86_64", "aarch64", "arm", "x86", "mips64", "mips64el", "mips", "mipsel",
     "powerpc64le", "ppc64le", "riscv64", "s390x", "loongarch64"}

\* C7: for every family of detect_arch's table the default token is a member
\* of SUPPORTED_ARCHS, so validate_arch accepts it; for any other host
\* architecture detect_arch returns an UnsupportedArch error whose message
\* names the host architecture and tells the caller to use --arch.
C7_DetectedTokenIsSupported ==
    call.fn = "detect_arch" =>
        IF Str(call.host) \in DetectFamilies
        THEN /\ call.result.kind = "Ok"
             /\ call.result.value \in SupportedSet
             /\ validate_arch(call.result.value) = Ok(call.result.value)
        ELSE /\ call.result.kind = "Err"
             /\ call.result.error = "UnsupportedArch"
             /\ call.result.msg = "unsupported architecture: " \o Str(call.host)
                                      \o " (use --arch to specify manually)"

\* detect_arch has mapped 64-bit ARM to a token validate_arch accepts
C7_Witness ==
    /\ call.fn = "detect_arch"
    /\ Str(call.host) = "aarch64"
    /\ call.result.kind = "Ok"
    /\ Str(call.result.value) = "arm64"

\* the members of SUPPORTED_ARCHS, in order, whose first k bytes are the
\* first k bytes of arch, k = min(3, len(arch))
PrefixMatches(arch) ==
    LET b == Bytes(arch)
        k == IF Len(b) < 3 THEN Len(b) ELSE 3
        Match(m) == Len(Bytes(m)) >= k /\ SubSeq(Bytes(m), 1, k) = SubSeq(b, 1, k)
    IN  SelectSeq(SUPPORTED_ARCHS, Match)

\* C8: when validate_arch rejects a token, the error lists the members that
\* start with the token's prefix of min(3, len) bytes, all of them and in
\* set order, as "Did you mean"; if there is none it lists the full set as
\* "Supported".  validate_arch("amd") names the eleven amd64 tokens, and a
\* token shorter than 3 is matched on its whole length, the empty token
\* matching every member.
C8_SuggestionsByPrefix ==
    (call.fn = "validate_arch" /\ call.result.kind = "Err") =>
        /\ IF PrefixMatches(call.arch) # <<>>
           THEN /\ call.result.hint = "Did you mean"
                /\ call.result.list = PrefixMatches(call.arch)
           ELSE /\ call.result.hint = "Supported"
                /\ call.result.list = SUPPORTED_ARCHS
        /\ call.result.msg = "unsupported architecture: '" \o Str(call.arch)
                                 \o "'\n" \o call.result.hint \o ": "
                                 \o Join(call.result.list)
        /\ Str(call.arch) = "amd" =>
               /\ call.result.hint = "Did you mean"
               /\ Join(call.result.list) =
                      "amd64, amd64-compatible, amd64-v1, amd64-v1-go120, "
                      \o "amd64-v1-go123, amd64-v2, amd64-v2-go120, amd64-v2-go123, "
                      \o "amd64-v3, amd64-v3-go120, amd64-v3-go123"
        /\ Str(call.arch) = "am" =>
               Len(call.result.list) = 11 /\ call.result.hint = "Did you mean"
        /\ Str(call.arch) = "amx" => call.result.hint = "Supported"
        /\ call.arch = <<>> =>
               call.result.hint = "Did you mean" /\ call.result.list = SUPPORTED_ARCHS

\* validate_arch("amd") has been rejected with a "Did you mean" list
C8_Witness ==
    /\ call.fn = "validate_arch"
    /\ Str(call.arch) = "amd"
    /\ call.result.kind = "Err"
    /\ call.result.hint = "Did you mean"
    /\ Len(call.result.list) = 11

\* C9: build_download_url returns, for every version, token and channel, the
\* base path of the channel followed by "/mihomo-linux-", the token, "-",
\* the version and ".gz", token and version unchanged and unvalidated; a
\* hyphenated token appears unsplit.
C9_DownloadUrlShape ==
    call.fn = "build_download_url" =>
        /\ call.result =
               (IF call.channel = "Stable"
                THEN "https://github.com/MetaCubeX/mihomo/releases/latest/download"
                ELSE "https://github.com/MetaCubeX/mihomo/releases/download/Prerelease-Alpha")
               \o "/mihomo-linux-" \o Str(call.arch) \o "-" \o Str(call.version) \o ".gz"
        /\ (Str(call.version) = "v1.19.0" /\ Str(call.arch) = "amd64"
                /\ call.channel = "Stable") =>
               call.result = "https://github.com/MetaCubeX/mihomo/releases/latest/download/mihomo-linux-amd64-v1.19.0.gz"
        /\ (Str(call.version) = "alpha-abc123" /\ Str(call.arch) = "arm64"
                /\ call.channel = "Alpha") =>
               call.result = "https://github.com/MetaCubeX/mihomo/releases/download/Prerelease-Alpha/mihomo-linux-arm64-alpha-abc123.gz"
        /\ (Str(call.version) = "v1.19.0" /\ Str(call.arch) = "amd64-compatible"
                /\ call.channel = "Stable") =>
               call.result = "https://github.com/MetaCubeX/mihomo/releases/latest/download/mihomo-linux-amd64-compatible-v1.19.0.gz"

\* the URL of the hyphenated token amd64-compatible has been built
C9_Witness ==
    /\ call.fn = "build_download_url"
    /\ Str(call.arch) = "amd64-compatible"
    /\ Str(call.version) = "v1.19.0"
    /\ call.channel = "Stable"
    /\ call.result = "https://github.com/MetaCubeX/mihomo/releases/latest/download/mihomo-linux-amd64-compatible-v1.19.0.gz"

\* C11: an error in the chain of resolve_binary_url ends it at that step and
\* is what the caller gets, unchanged, with no URL: the architecture step
\* comes before the version request, so a failed validation or detection
\* sends no request, and a failed version fetch makes no call of
\* build_download_url; the chain returns a URL only when the architecture
\* step and the version step have both succeeded.
C11_ErrorsAbortResolution ==
    /\ requests # <<>> => archRes.kind = "Ok"
    /\ builds # <<>> => archRes.kind = "Ok" /\ verRes.kind = "Ok"
    /\ (rpc = "Returned" /\ archRes.kind # "NotYet") =>
        /\ archRes.kind = "Err" =>
               /\ urlRes = archRes
               /\ urlRes.error \in {"InvalidArch", "UnsupportedArch"}
               /\ requests = <<>> /\ verRes = NotYet /\ builds = <<>>
        /\ archRes.kind = "Panic" =>
               urlRes.kind # "Ok" /\ requests = <<>> /\ builds = <<>>
        /\ (args.arch = Some(X86_64)) => urlRes = validate_arch(X86_64)
        /\ (~args.arch.some /\ ~config.mihomo_arch.some /\ hostArch = Sparc64) =>
               /\ urlRes.kind = "Err"
               /\ urlRes.msg = "unsupported architecture: sparc64 (use --arch to specify manually)"
        /\ verRes.kind = "Err" =>
               /\ urlRes = verRes
               /\ urlRes.error \in {"Network", "EmptyVersion"}
               /\ builds = <<>>
        /\ urlRes.kind = "Ok" =>
               /\ archRes.kind = "Ok" /\ verRes.kind = "Ok"
               /\ Len(requests) = 1
               /\ builds = <<[version |-> verRes.value, arch |-> archRes.value,
                              channel |-> config.mihomo_channel]>>

\* the version fetch has failed after a valid architecture step, and
\* resolve_binary_url has returned that error without building a URL
C11_Witness ==
    /\ rpc = "Returned"
    /\ archRes = Ok(Amd64)
    /\ Len(requests) = 1
    /\ verRes.kind = "Err"
    /\ verRes.error = "EmptyVersion"
    /\ urlRes = verRes
    /\ builds = <<>>

\* the stage an update without --all selects
SelectedStage ==
    IF args.flags.core THEN "update_core"
    ELSE IF args.flags.geodata THEN "update_geodata"
    ELSE "update_config"

\* C12: an update without --all runs exactly one stage: core if --core,
\* else geodata if --geodata, else config; never two.  The stage's error is
\* the command's error, cli() itself requests no restart, and core and
\* config are called with restart enabled, so that a restart is the
\* stage's own.
C12_SingleTargetRunsOneStage ==
    ~args.flags.all =>
        /\ Len(StageOrder) <= 1
        /\ pc \in {"Idle", "UpdatingConfig", "UpdatingGeodata", "UpdatingCore",
                   "Done", "Panicked"}
        /\ pc \in {"UpdatingConfig", "UpdatingGeodata", "UpdatingCore"} =>
               pc = CASE SelectedStage = "update_core" -> "UpdatingCore"
                      [] SelectedStage = "update_geodata" -> "UpdatingGeodata"
                      [] OTHER -> "UpdatingConfig"
        /\ Ended => StageOrder = <<SelectedStage>>
        /\ \A i \in 1..Len(calls) :
               /\ calls[i].op \in {"update_config", "update_core"} => calls[i].restart
               /\ calls[i].op = "restart" =>
                      /\ calls[i].by = SelectedStage
                      /\ calls[i].by # "cli"
                      /\ outcome[SelectedStage] = "Ok"
        /\ Ended /\ outcome[SelectedStage] = "Err" => exit = "Err"
        /\ Ended /\ outcome[SelectedStage] = "Ok" => exit = "Ok"
        /\ \A s \in Stages \ {SelectedStage} : outcome[s] = "NotRun"

\* --config, --core and --geodata were all given: only the core stage has
\* run, it failed, and the command ended with its error and no restart
C12_Witness ==
    /\ ~args.flags.all
    /\ args.flags.config /\ args.flags.core /\ args.flags.geodata
    /\ pc = "Done"
    /\ calls = <<[op |-> "update_core", restart |-> TRUE]>>
    /\ outcome["update_core"] = "Err"
    /\ exit = "Err"

====
